---- MODULE Spec2Model ----
(***************************************************************************)
(* SMPTE timecode server (src/smpte-tc-server.py): the session registry,   *)
(* the per-session clock driver task and the fan-out broadcast, as asyncio *)
(* coroutines scheduled cooperatively on one event loop.                   *)
(*                                                                         *)
(* Every coroutine is a stack of frames.  A task runs from one suspension  *)
(* point (await of a read, drain, wait_closed, sleep or of another task)   *)
(* to the next without interleaving: `cur` names the task that holds the   *)
(* event loop, and only that task steps until it suspends (cur = NoTask).  *)
(***************************************************************************)
EXTENDS Integers, Sequences, FiniteSets, TLC

\* ------------------------------------------------------------------ bounds
NumClients == 3     \* connections the server can hold
NumCallers == 2     \* clients that act in Spec and SpecWide
MaxSessions == 2    \* sessions ever created
MaxDrivers == 2     \* driver tasks ever created
MaxCmds == 4        \* commands dispatched in a behaviour of Spec
WideCmds == 3       \* commands dispatched in a behaviour of SpecWide
MaxTicks == 2       \* ticks that increment a timecode
MaxFaults == 1      \* transports that fail
MaxFrameSteps == 61 \* increments applied to the clock on its own

ClientIds == 1..NumClients
Callers == 1..NumCallers
SessionIds == 1..MaxSessions
DriverIds == 1..MaxDrivers
None == 0

\* ----------------------------------------------------------------- strings
\* A string is the sequence of its characters.
COLON == ":"
DigitChars == {"0", "1", "2", "3", "4", "5", "6", "7", "8", "9"}

DigitVal(ch) ==
    CASE ch = "0" -> 0 [] ch = "1" -> 1 [] ch = "2" -> 2 [] ch = "3" -> 3
      [] ch = "4" -> 4 [] ch = "5" -> 5 [] ch = "6" -> 6 [] ch = "7" -> 7
      [] ch = "8" -> 8 [] ch = "9" -> 9

DigitChar(n) ==
    CASE n = 0 -> "0" [] n = 1 -> "1" [] n = 2 -> "2" [] n = 3 -> "3"
      [] n = 4 -> "4" [] n = 5 -> "5" [] n = 6 -> "6" [] n = 7 -> "7"
      [] n = 8 -> "8" [] n = 9 -> "9"

\* str.split(':'): the fields between the separators (always at least one).
RECURSIVE SplitFrom(_, _, _)
SplitFrom(str, i, acc) ==
    IF i > Len(str) THEN <<acc>>
    ELSE IF str[i] = COLON THEN <<acc>> \o SplitFrom(str, i + 1, <<>>)
    ELSE SplitFrom(str, i + 1, Append(acc, str[i]))

Split(str) == SplitFrom(str, 1, <<>>)

\* int(s) succeeds on an optional sign followed by one or more digits
\* (over the alphabet of digits, '-', '+', ':' and letters used here).
AllDigits(s) == Len(s) > 0 /\ \A i \in 1..Len(s) : s[i] \in DigitChars

IsInt(s) ==
    \/ AllDigits(s)
    \/ Len(s) > 1 /\ s[1] \in {"-", "+"} /\ AllDigits(Tail(s))

RECURSIVE NatOf(_)
NatOf(s) == IF s = <<>> THEN 0 ELSE 10 * NatOf(SubSeq(s, 1, Len(s) - 1)) + DigitVal(s[Len(s)])

IntOf(s) ==
    IF s[1] = "-" THEN 0 - NatOf(Tail(s))
    ELSE IF s[1] = "+" THEN NatOf(Tail(s))
    ELSE NatOf(s)

RECURSIVE NatStr(_)
NatStr(n) == IF n < 10 THEN <<DigitChar(n)>> ELSE Append(NatStr(n \div 10), DigitChar(n % 10))

\* format(n, '02d'): sign, then digits, zero-padded to a total width of two.
Pad2(n) ==
    IF n < 0 THEN <<"-">> \o NatStr(0 - n)
    ELSE IF n < 10 THEN <<"0", DigitChar(n)>>
    ELSE NatStr(n)

\* ---------------------------------------------------------------- timecode
TC(h, m, s, f) == [hours |-> h, minutes |-> m, seconds |-> s, frames |-> f]

NoTC == [ok |-> FALSE, tc |-> TC(0, 0, 0, 0)]

\* SMPTETimecode.from_string: ok = FALSE stands for the ValueError.
from_string(str) ==
    LET parts == Split(str) IN
    IF Len(parts) # 4 THEN NoTC
    ELSE IF \E i \in 1..4 : ~IsInt(parts[i]) THEN NoTC
    ELSE [ok |-> TRUE,
          tc |-> TC(IntOf(parts[1]), IntOf(parts[2]), IntOf(parts[3]), IntOf(parts[4]))]

to_string(tc) ==
    Pad2(tc.hours) \o <<COLON>> \o Pad2(tc.minutes) \o <<COLON>>
        \o Pad2(tc.seconds) \o <<COLON>> \o Pad2(tc.frames)

\* An increment that lets the frame count reach max_frames before it carries.
incrementLate(tc, max_frames) ==
    IF tc.frames + 1 <= max_frames THEN [tc EXCEPT !.frames = @ + 1]
    ELSE [tc EXCEPT !.frames = 0, !.seconds = @ + 1]

\* SMPTETimecode.increment
increment(tc, max_frames) ==
    LET f1 == tc.frames + 1 IN
    IF f1 < max_frames THEN [tc EXCEPT !.frames = f1]
    ELSE LET s1 == tc.seconds + 1 IN
         IF s1 < 60 THEN [tc EXCEPT !.frames = 0, !.seconds = s1]
         ELSE LET m1 == tc.minutes + 1 IN
              IF m1 < 60 THEN [tc EXCEPT !.frames = 0, !.seconds = 0, !.minutes = m1]
              ELSE LET h1 == tc.hours + 1 IN
                   IF h1 < 24
                   THEN [tc EXCEPT !.frames = 0, !.seconds = 0, !.minutes = 0, !.hours = h1]
                   ELSE TC(0, 0, 0, 0)

\* SUPPORTED_FRAMERATES: the keys, and each value in thousandths.
SUPPORTED_FRAMERATES ==
    [k \in {"23.976", "24", "29.97", "30", "50", "59.94", "60"} |->
        CASE k = "23.976" -> 23976 [] k = "24" -> 24000 [] k = "29.97" -> 29970
          [] k = "30" -> 30000 [] k = "50" -> 50000 [] k = "59.94" -> 59940
          [] k = "60" -> 60000]

\* A frame count rounded to the nearest integer.
get_max_frames_rounded(framerate) == (SUPPORTED_FRAMERATES[framerate] + 500) \div 1000

\* TimecodeSession.get_max_frames: int(float(framerate)).
get_max_frames(framerate) == SUPPORTED_FRAMERATES[framerate] \div 1000

\* ------------------------------------------------------------------ inputs
\* The strings clients send in 'initial_timecode' / 'timecode'.
STR_ZERO == <<"0", "0", ":", "0", "0", ":", "0", "0", ":", "0", "0">>
STR_WRAP == <<"2", "3", ":", "5", "9", ":", "5", "9", ":", "2", "3">>
STR_RANGE == <<"2", "5", ":", "0", "0", ":", "0", "0", ":", "0", "0">>
STR_SHORT == <<"1", ":", "2", ":", "3">>

STR_SIGN == <<"0", "0", ":", "0", "0", ":", "-", "1", ":", "0", "0">>
STR_WORD == <<"0", "0", ":", "x", ":", "0", "0", ":", "0", "0">>
STR_LAST == <<"0", "0", ":", "0", "0", ":", "0", "0", ":", "2", "9">>

TimecodeInputs == {STR_ZERO, STR_WRAP, STR_RANGE, STR_SHORT, STR_SIGN, STR_WORD, STR_LAST}
FramerateInputs == {"24", "25"}

\* ---------------------------------------------------------------- messages
NoStr == <<>>

Msg(type, text, sid, fr, tcs, run) ==
    [type |-> type, message |-> text, session_id |-> sid, framerate |-> fr,
     timecode |-> tcs, running |-> run]

ErrorMsg(text) == Msg("error", text, None, "", NoStr, FALSE)
WelcomeMsg == Msg("welcome", "Connected to SMPTE Timecode Server", None, "", NoStr, FALSE)
CreatedMsg(sid, fr, tc) == Msg("session_created", "", sid, fr, to_string(tc), FALSE)
JoinedMsg(sid, fr, tc, run) == Msg("session_joined", "", sid, fr, to_string(tc), run)
\* A clock message that carries the frame after the one it is given.
TimecodeMsgAhead(type, tc) == Msg(type, "", None, "", to_string([tc EXCEPT !.frames = @ + 1]), FALSE)
TimecodeMsg(type, tc) == Msg(type, "", None, "", to_string(tc), FALSE)
NoMsg == Msg("", "", None, "", NoStr, FALSE)
NoSent == [to |-> None, m |-> NoMsg, ok |-> FALSE]

\* ------------------------------------------------------------------- tasks
H(c) == <<"h", c>>
D(d) == <<"d", d>>
NoTask == <<"none", 0>>
Tasks == {H(c) : c \in ClientIds} \cup {D(d) : d \in DriverIds}

\* A frame: k is the place in the coroutine, c a client id, s a session id,
\* d a driver id, m a message, r the clients a broadcast has still to serve.
Frame(k, c, s, d, m, r) == [k |-> k, c |-> c, s |-> s, d |-> d, m |-> m, r |-> r]
F0(k) == Frame(k, None, None, None, NoMsg, {})
FC(k, c) == Frame(k, c, None, None, NoMsg, {})

VARIABLES
    sessions,   \* SMPTETimecodeServer.sessions: the ids in the session map
    sess,       \* the TimecodeSession objects, by id (they outlive the map entry)
    nextSid,    \* the next fresh session id (uuid4)
    clients,    \* SMPTETimecodeServer.clients: the ids in the client map
    cl,         \* the ClientConnection objects: session_id, connected
    conn,       \* each client's transport: "open", "broken" (writes fail), "closing"
    stack,      \* each task's coroutine stack
    exc,        \* the exception propagating in each task
    cancelled,  \* a cancellation requested of the task and not yet delivered
    dres,       \* each driver task: "unborn", "live", "ok", "KeyError"
    nextDrv,    \* the next fresh driver task
    cur,        \* the task that holds the event loop
    cmd,        \* the command this step dispatched, if it dispatched one
    sent,       \* the write this step made to a client's transport, if it made one
    dq,         \* per transport, the tasks suspended in drain(), first come first
    ncmds, nticks, nfaults

vars == <<sessions, sess, nextSid, clients, cl, conn, stack, exc, cancelled, dres,
          nextDrv, cur, cmd, sent, dq, ncmds, nticks, nfaults>>

Cmd(c, type, fr, tcs, sid) ==
    [c |-> c, type |-> type, framerate |-> fr, timecode |-> tcs, session_id |-> sid]
NoCmd == Cmd(None, "", "", NoStr, None)

\* A constructor that leaves the session marked as running.
NewSessionStarted(framerate, initial_timecode, created_by) ==
    [framerate |-> framerate, timecode |-> initial_timecode, running |-> TRUE,
     clients |-> {created_by}, task |-> None]

\* TimecodeSession.__init__
NewSession(framerate, initial_timecode, created_by) ==
    [framerate |-> framerate, timecode |-> initial_timecode, running |-> FALSE,
     clients |-> {created_by}, task |-> None]

BlankSession == [framerate |-> "", timecode |-> TC(0, 0, 0, 0), running |-> FALSE,
                 clients |-> {}, task |-> None]

Init ==
    /\ sessions = {}
    /\ sess = [s \in SessionIds |-> BlankSession]
    /\ nextSid = 1
    /\ clients = {}
    /\ cl = [c \in ClientIds |-> [session_id |-> None, connected |-> FALSE]]
    /\ conn = [c \in ClientIds |-> "open"]
    /\ stack = [t \in Tasks |-> <<>>]
    /\ exc = [t \in Tasks |-> "none"]
    /\ cancelled = [t \in Tasks |-> FALSE]
    /\ dres = [d \in DriverIds |-> "unborn"]
    /\ nextDrv = 1
    /\ cur = NoTask
    /\ cmd = NoCmd
    /\ sent = NoSent
    /\ dq = [c \in ClientIds |-> <<>>]
    /\ ncmds = 0
    /\ nticks = 0
    /\ nfaults = 0

\* ------------------------------------------------------------ stack helpers
Top(t) == stack[t][Len(stack[t])]
TopK(t) == IF stack[t] = <<>> THEN "" ELSE Top(t).k
Below(t) == SubSeq(stack[t], 1, Len(stack[t]) - 1)

\* The task runs and nothing is propagating: it continues at its top frame.
Runs(t, k) == cur = t /\ exc[t] = "none" /\ TopK(t) = k
\* The task is suspended at its top frame and the event loop is free.
Waits(t, k) == cur = NoTask /\ TopK(t) = k

\* send_to_client's guard: the client is in the map, connected, not closing.
CanWrite(x) == x \in clients /\ cl[x].connected /\ conn[x] # "closing"

\* writer.write(data) to client x: ok when the transport takes it.
Write(x, m) == [to |-> x, m |-> m, ok |-> conn[x] = "open"]

\* This step writes to no transport.
NoWrite == sent' = NoSent /\ dq' = dq

\* send_to_client(x, m) called by task t whose stack is otherwise stk, can
\* being its guard: the write is made and the coroutine suspends in drain(),
\* behind the tasks already waiting on that transport; when the guard fails
\* the call returns at once.
SendIf(t, stk, x, m, can) ==
    /\ stack' = [stack EXCEPT ![t] =
                    IF can THEN Append(stk, Frame("drain", x, None, None, m, {}))
                    ELSE stk]
    /\ sent' = IF can THEN Write(x, m) ELSE NoSent
    /\ dq' = IF can THEN [dq EXCEPT ![x] = Append(@, t)] ELSE dq
    /\ cur' = IF can THEN NoTask ELSE t

Send(t, stk, x, m) == SendIf(t, stk, x, m, CanWrite(x))

\* send_to_client(c, m) as the last statement of a command of c's handler.
\* On a healthy transport nobody waits on, nothing follows the drain(), so the
\* handler is taken straight back to its read; otherwise it suspends in drain().
ReplyIf(c, m, can) ==
    LET waits == can /\ (conn[c] # "open" \/ dq[c] # <<>>) IN
    /\ stack' = [stack EXCEPT ![H(c)] =
                    IF waits
                    THEN <<F0("handling"), Frame("drain", c, None, None, m, {})>>
                    ELSE <<F0("read")>>]
    /\ sent' = IF can THEN Write(c, m) ELSE NoSent
    /\ dq' = IF waits THEN [dq EXCEPT ![c] = Append(@, H(c))] ELSE dq
    /\ cur' = NoTask

Reply(c, m) == ReplyIf(c, m, CanWrite(c))

\* broadcast_to_session(sid, m) called by task t: the frame that walks the
\* snapshot list(session.clients), or nothing when the session is not in the map.
BcastFrames(sid, m) ==
    IF sid \in sessions THEN <<Frame("bcast", None, sid, None, m, sess[sid].clients)>>
    ELSE <<>>

\* ------------------------------------------------------- handle_client
HandlingBase == <<F0("handling")>>

\* handle_client up to the welcome message.
Connect(c) ==
    /\ cur = NoTask
    /\ stack[H(c)] = <<>>
    /\ clients' = clients \cup {c}
    /\ cl' = [cl EXCEPT ![c] = [session_id |-> None, connected |-> TRUE]]
    /\ ReplyIf(c, WelcomeMsg, conn[c] # "closing")
    /\ cmd' = NoCmd
    /\ ncmds' = ncmds
    /\ UNCHANGED <<sessions, sess, nextSid, conn, exc, cancelled, dres, nextDrv,
                   nticks, nfaults>>

\* The handler is back at 'async for line in reader'.
HandlerReturn(c) ==
    /\ Runs(H(c), "handling")
    /\ stack' = [stack EXCEPT ![H(c)] = <<F0("read")>>]
    /\ cur' = NoTask
    /\ cmd' = NoCmd
    /\ NoWrite
    /\ UNCHANGED <<sessions, sess, nextSid, clients, cl, conn, exc, cancelled, dres,
                   nextDrv, ncmds, nticks, nfaults>>

\* 'except Exception' around handle_client_message: Internal server error.
HandlerCatch(c) ==
    /\ cur = H(c)
    /\ TopK(H(c)) = "handling"
    /\ exc[H(c)] # "none"
    /\ exc' = [exc EXCEPT ![H(c)] = "none"]
    /\ Reply(c, ErrorMsg("Internal server error"))
    /\ cmd' = NoCmd
    /\ ncmds' = ncmds
    /\ UNCHANGED <<sessions, sess, nextSid, clients, cl, conn, cancelled, dres,
                   nextDrv, nticks, nfaults>>

\* The reader ends (EOF or a transport error): the finally clause runs
\* handle_client_disconnect, which starts with leave_session.
Eof(c) ==
    /\ Waits(H(c), "read")
    /\ stack' = [stack EXCEPT ![H(c)] = <<F0("fin"), FC("disc_leave", c), FC("leave", c)>>]
    /\ cur' = H(c)
    /\ cmd' = NoCmd
    /\ NoWrite
    /\ UNCHANGED <<sessions, sess, nextSid, clients, cl, conn, exc, cancelled, dres,
                   nextDrv, ncmds, nticks, nfaults>>

\* handle_client ends, normally or with the exception its finally clause raised.
HandlerExit(c) ==
    /\ cur = H(c)
    /\ TopK(H(c)) = "fin"
    /\ stack' = [stack EXCEPT ![H(c)] = <<F0("exit")>>]
    /\ exc' = [exc EXCEPT ![H(c)] = "none"]
    /\ cur' = NoTask
    /\ cmd' = NoCmd
    /\ NoWrite
    /\ UNCHANGED <<sessions, sess, nextSid, clients, cl, conn, cancelled, dres,
                   nextDrv, ncmds, nticks, nfaults>>

\* The transport of a connected client fails: later writes raise.
ConnBreak(c) ==
    /\ cur = NoTask
    /\ c \in clients
    /\ conn[c] = "open"
    /\ nfaults < MaxFaults
    /\ conn' = [conn EXCEPT ![c] = "broken"]
    /\ nfaults' = nfaults + 1
    /\ cmd' = NoCmd
    /\ ncmds' = ncmds
    /\ NoWrite
    /\ UNCHANGED <<sessions, sess, nextSid, clients, cl, stack, exc, cancelled, dres,
                   nextDrv, cur, nticks>>

\* A line has been read and handle_client_message dispatches it.
Idle(c) == Waits(H(c), "read")

Begin(command) == cmd' = command /\ ncmds' = ncmds + 1

\* ------------------------------------------------------- create_session
\* A create_session that does not look the framerate up.
AnyFramerate(framerate) == TRUE

\* create_session's check 'framerate not in self.SUPPORTED_FRAMERATES', negated.
FramerateSupported(framerate) == framerate \in DOMAIN SUPPORTED_FRAMERATES

CreateSession(c, framerate, str) ==
    LET p == from_string(str) IN
    /\ Idle(c)
    /\ Begin(Cmd(c, "create_session", framerate, str, None))
    /\ IF ~FramerateSupported(framerate)
       THEN /\ Reply(c, ErrorMsg("Unsupported framerate"))
            /\ UNCHANGED <<sessions, sess, nextSid, cl>>
       ELSE IF ~p.ok
       THEN /\ Reply(c, ErrorMsg("Invalid timecode format"))
            /\ UNCHANGED <<sessions, sess, nextSid, cl>>
       ELSE /\ nextSid <= MaxSessions
            /\ sess' = [sess EXCEPT ![nextSid] = NewSession(framerate, p.tc, c)]
            /\ sessions' = sessions \cup {nextSid}
            /\ nextSid' = nextSid + 1
            /\ cl' = IF c \in clients THEN [cl EXCEPT ![c].session_id = nextSid] ELSE cl
            /\ Reply(c, CreatedMsg(nextSid, framerate, p.tc))
    /\ UNCHANGED <<clients, conn, exc, cancelled, dres, nextDrv, nticks, nfaults>>

\* --------------------------------------------------------- leave_session
\* TimecodeSession.stop_timecode gets past its early return.
StopGuard(s) == sess[s].running /\ sess[s].task # None

\* A cancel that reaches every live driver instead of the session's own.
CancelEvery(d) ==
    [t \in Tasks |-> cancelled[t] \/ \E x \in DriverIds : t = D(x) /\ dres[x] = "live"]

\* task.cancel(): a request to a task that has not finished.
Cancel(d) == IF dres[d] = "live" THEN [cancelled EXCEPT ![D(d)] = TRUE] ELSE cancelled

\* 'await self.task' suspends unless the task has already finished.
AwaitCur(t, d) == IF dres[d] = "live" THEN NoTask ELSE t

StopWaitFrame(s) == Frame("stop_wait", None, s, sess[s].task, NoMsg, {})

\* TimecodeSession.is_empty, after remove_client(c).
IsEmptyWithout(s, c) == sess[s].clients \ {c} = {}

\* leave_session(c) from its entry to its return or to the await in
\* stop_timecode.
LeaveEnter(t) ==
    LET c == Top(t).c
        sid == cl[c].session_id
    IN
    /\ Runs(t, "leave")
    /\ IF c \notin clients \/ sid = None
       THEN /\ stack' = [stack EXCEPT ![t] = Below(t)]
            /\ UNCHANGED <<sessions, sess, cl, cancelled, cur>>
       ELSE IF sid \notin sessions
       THEN /\ cl' = [cl EXCEPT ![c].session_id = None]
            /\ stack' = [stack EXCEPT ![t] = Below(t)]
            /\ UNCHANGED <<sessions, sess, cancelled, cur>>
       ELSE IF ~IsEmptyWithout(sid, c)
       THEN /\ sess' = [sess EXCEPT ![sid].clients = @ \ {c}]
            /\ cl' = [cl EXCEPT ![c].session_id = None]
            /\ stack' = [stack EXCEPT ![t] = Below(t)]
            /\ UNCHANGED <<sessions, cancelled, cur>>
       ELSE IF ~StopGuard(sid)
       THEN /\ sess' = [sess EXCEPT ![sid].clients = @ \ {c}]
            /\ sessions' = sessions \ {sid}
            /\ cl' = [cl EXCEPT ![c].session_id = None]
            /\ stack' = [stack EXCEPT ![t] = Below(t)]
            /\ UNCHANGED <<cancelled, cur>>
       ELSE /\ sess' = [sess EXCEPT ![sid].clients = @ \ {c}, ![sid].running = FALSE]
            /\ cancelled' = Cancel(sess[sid].task)
            /\ stack' = [stack EXCEPT ![t] =
                   Below(t) \o <<Frame("leave_stop", c, sid, None, NoMsg, {}), StopWaitFrame(sid)>>]
            /\ cur' = AwaitCur(t, sess[sid].task)
            /\ UNCHANGED <<sessions, cl>>
    /\ cmd' = NoCmd
    /\ ncmds' = ncmds
    /\ NoWrite
    /\ UNCHANGED <<nextSid, clients, conn, exc, dres, nextDrv, nticks, nfaults>>

\* stop_timecode resumes from 'await self.task': with the CancelledError it
\* catches, with the exception the awaited task died of, or normally.
StopWaitResume(t) ==
    LET s == Top(t).s
        d == Top(t).d
    IN
    /\ TopK(t) = "stop_wait"
    /\ exc[t] = "none"
    /\ \/ cur = t
       \/ cur = NoTask /\ (dres[d] # "live" \/ cancelled[t])
    /\ cur' = t
    /\ stack' = [stack EXCEPT ![t] = Below(t)]
    /\ IF cancelled[t] /\ cur = NoTask
       THEN /\ cancelled' = [cancelled EXCEPT ![t] = FALSE]
            /\ sess' = [sess EXCEPT ![s].task = None]
            /\ UNCHANGED exc
       ELSE IF dres[d] = "KeyError"
       THEN /\ exc' = [exc EXCEPT ![t] = "KeyError"]
            /\ UNCHANGED <<sess, cancelled>>
       ELSE /\ sess' = [sess EXCEPT ![s].task = None]
            /\ UNCHANGED <<exc, cancelled>>
    /\ cmd' = NoCmd
    /\ ncmds' = ncmds
    /\ NoWrite
    /\ UNCHANGED <<sessions, nextSid, clients, cl, conn, dres, nextDrv, nticks, nfaults>>

\* leave_session after stop_timecode returned: del self.sessions[client.session_id]
\* (a KeyError when that key is not in the map), then client.session_id = None.
LeaveCont(t) ==
    LET c == Top(t).c
        sid == cl[c].session_id
    IN
    /\ Runs(t, "leave_stop")
    /\ stack' = [stack EXCEPT ![t] = Below(t)]
    /\ IF sid \in sessions
       THEN /\ sessions' = sessions \ {sid}
            /\ cl' = [cl EXCEPT ![c].session_id = None]
            /\ UNCHANGED exc
       ELSE /\ exc' = [exc EXCEPT ![t] = "KeyError"]
            /\ UNCHANGED <<sessions, cl>>
    /\ cmd' = NoCmd
    /\ NoWrite
    /\ UNCHANGED <<sess, nextSid, clients, conn, cancelled, dres, nextDrv, cur, ncmds, nticks, nfaults>>

LeaveSession(c) ==
    /\ Idle(c)
    /\ Begin(Cmd(c, "leave_session", "", NoStr, None))
    /\ stack' = [stack EXCEPT ![H(c)] = <<F0("handling"), FC("leave", c)>>]
    /\ cur' = H(c)
    /\ NoWrite
    /\ UNCHANGED <<sessions, sess, nextSid, clients, cl, conn, exc, cancelled, dres,
                   nextDrv, nticks, nfaults>>

\* ---------------------------------------------------------- join_session
JoinSession(c, sid) ==
    /\ Idle(c)
    /\ Begin(Cmd(c, "join_session", "", NoStr, sid))
    /\ IF sid \notin sessions
       THEN Reply(c, ErrorMsg("Session not found"))
       ELSE /\ stack' = [stack EXCEPT ![H(c)] =
                   <<F0("handling"), Frame("join_leave", c, sid, None, NoMsg, {}), FC("leave", c)>>]
            /\ cur' = H(c)
            /\ NoWrite
    /\ UNCHANGED <<sessions, sess, nextSid, clients, cl, conn, exc, cancelled, dres,
                   nextDrv, nticks, nfaults>>

\* join_session after leave_session returned: session = self.sessions[session_id]
\* (a KeyError when the id is no longer in the map), add_client, the reply.
JoinCont(t) ==
    LET c == Top(t).c
        sid == Top(t).s
    IN
    /\ Runs(t, "join_leave")
    /\ IF sid \notin sessions
       THEN /\ exc' = [exc EXCEPT ![t] = "KeyError"]
            /\ stack' = [stack EXCEPT ![t] = Below(t)]
            /\ NoWrite
            /\ UNCHANGED <<sess, cl, cur>>
       ELSE /\ sess' = [sess EXCEPT ![sid].clients = @ \cup {c}]
            /\ cl' = IF c \in clients THEN [cl EXCEPT ![c].session_id = sid] ELSE cl
            /\ Reply(c, JoinedMsg(sid, sess[sid].framerate, sess[sid].timecode,
                                 sess[sid].running))
            /\ UNCHANGED exc
    /\ cmd' = NoCmd
    /\ ncmds' = ncmds
    /\ UNCHANGED <<sessions, nextSid, clients, conn, cancelled, dres, nextDrv, nticks,
                   nfaults>>

\* ------------------------------------------------- start / stop / reset
\* SMPTETimecodeServer.start_timecode's check 'if session.running'.
AlreadyRunning(s) == sess[s].running

\* TimecodeSession.start_timecode gets past 'if self.running or self.task'.
StartGuard(s) == ~(sess[s].running \/ sess[s].task # None)

SleepFrame(s, d) == Frame("sleep", None, s, d, NoMsg, {})

StartTimecode(c) ==
    LET sid == cl[c].session_id IN
    /\ Idle(c)
    /\ Begin(Cmd(c, "start_timecode", "", NoStr, None))
    /\ IF c \notin clients \/ sid = None
       THEN /\ Reply(c, ErrorMsg("Not in a session"))
            /\ UNCHANGED <<sess, dres, nextDrv>>
       ELSE IF sid \notin sessions
       THEN /\ Reply(c, ErrorMsg("Session not found"))
            /\ UNCHANGED <<sess, dres, nextDrv>>
       ELSE IF AlreadyRunning(sid)
       THEN /\ Reply(c, ErrorMsg("Timecode already running"))
            /\ UNCHANGED <<sess, dres, nextDrv>>
       ELSE /\ IF StartGuard(sid)
               THEN /\ nextDrv <= MaxDrivers
                    /\ sess' = [sess EXCEPT ![sid].running = TRUE, ![sid].task = nextDrv]
                    /\ dres' = [dres EXCEPT ![nextDrv] = "live"]
                    /\ nextDrv' = nextDrv + 1
                    /\ stack' = [stack EXCEPT
                           ![D(nextDrv)] = <<SleepFrame(sid, nextDrv)>>,
                           ![H(c)] = HandlingBase \o
                               BcastFrames(sid, TimecodeMsg("timecode_started", sess[sid].timecode))]
               ELSE /\ stack' = [stack EXCEPT ![H(c)] = HandlingBase \o
                               BcastFrames(sid, TimecodeMsg("timecode_started", sess[sid].timecode))]
                    /\ UNCHANGED <<sess, dres, nextDrv>>
            /\ cur' = H(c)
            /\ NoWrite
    /\ UNCHANGED <<sessions, nextSid, clients, cl, conn, exc, cancelled, nticks, nfaults>>

\* A stop_timecode that tests the task handle instead of the running flag.
NoTaskSet(s) == sess[s].task = None

\* SMPTETimecodeServer.stop_timecode's check 'if not session.running'.
NotRunning(s) == ~sess[s].running

StopTimecode(c) ==
    LET sid == cl[c].session_id IN
    /\ Idle(c)
    /\ Begin(Cmd(c, "stop_timecode", "", NoStr, None))
    /\ IF c \notin clients \/ sid = None
       THEN /\ Reply(c, ErrorMsg("Not in a session"))
            /\ UNCHANGED <<sess, cancelled>>
       ELSE IF sid \notin sessions
       THEN /\ Reply(c, ErrorMsg("Session not found"))
            /\ UNCHANGED <<sess, cancelled>>
       ELSE IF NotRunning(sid)
       THEN /\ Reply(c, ErrorMsg("Timecode not running"))
            /\ UNCHANGED <<sess, cancelled>>
       ELSE IF ~StopGuard(sid)
       THEN /\ stack' = [stack EXCEPT ![H(c)] = HandlingBase \o
                   BcastFrames(sid, TimecodeMsg("timecode_stopped", sess[sid].timecode))]
            /\ cur' = H(c)
            /\ NoWrite
            /\ UNCHANGED <<sess, cancelled>>
       ELSE /\ sess' = [sess EXCEPT ![sid].running = FALSE]
            /\ cancelled' = Cancel(sess[sid].task)
            /\ stack' = [stack EXCEPT ![H(c)] =
                   <<F0("handling"), Frame("stopcmd", c, sid, None, NoMsg, {}), StopWaitFrame(sid)>>]
            /\ cur' = AwaitCur(H(c), sess[sid].task)
            /\ NoWrite
    /\ UNCHANGED <<sessions, nextSid, clients, cl, conn, exc, dres, nextDrv, nticks, nfaults>>

\* SMPTETimecodeServer.stop_timecode after session.stop_timecode() returned.
StopCont(t) ==
    LET sid == Top(t).s IN
    /\ Runs(t, "stopcmd")
    /\ stack' = [stack EXCEPT ![t] = Below(t) \o
           BcastFrames(sid, TimecodeMsg("timecode_stopped", sess[sid].timecode))]
    /\ cmd' = NoCmd
    /\ NoWrite
    /\ UNCHANGED <<sessions, sess, nextSid, clients, cl, conn, exc, cancelled, dres, nextDrv,
                   cur, ncmds, nticks, nfaults>>

ResetTimecode(c, str) ==
    LET sid == cl[c].session_id
        p == from_string(str)
    IN
    /\ Idle(c)
    /\ Begin(Cmd(c, "reset_timecode", "", str, None))
    /\ IF c \notin clients \/ sid = None
       THEN /\ Reply(c, ErrorMsg("Not in a session"))
            /\ UNCHANGED sess
       ELSE IF sid \notin sessions
       THEN /\ Reply(c, ErrorMsg("Session not found"))
            /\ UNCHANGED sess
       ELSE IF ~p.ok
       THEN /\ Reply(c, ErrorMsg("Invalid timecode format"))
            /\ UNCHANGED sess
       ELSE /\ sess' = [sess EXCEPT ![sid].timecode = p.tc]
            /\ stack' = [stack EXCEPT ![H(c)] = HandlingBase \o
                   BcastFrames(sid, TimecodeMsg("timecode_reset", p.tc))]
            /\ cur' = H(c)
            /\ NoWrite
    /\ UNCHANGED <<sessions, nextSid, clients, cl, conn, exc, cancelled, dres, nextDrv,
                   nticks, nfaults>>

\* An unrecognized 'type'.
UnknownCommand(c) ==
    /\ Idle(c)
    /\ Begin(Cmd(c, "unknown", "", NoStr, None))
    /\ Reply(c, ErrorMsg("Unknown command"))
    /\ UNCHANGED <<sessions, sess, nextSid, clients, cl, conn, exc, cancelled, dres,
                   nextDrv, nticks, nfaults>>

\* ------------------------------------------- broadcast and send_to_client
\* broadcast_to_session's loop: the next client of the snapshot, in any order.
Bcast(t) ==
    /\ Runs(t, "bcast")
    /\ IF Top(t).r = {}
       THEN /\ stack' = [stack EXCEPT ![t] = Below(t)]
            /\ NoWrite
            /\ UNCHANGED <<cur>>
       ELSE \E x \in Top(t).r :
               Send(t, Append(Below(t), [Top(t) EXCEPT !.r = @ \ {x}]), x, Top(t).m)
    /\ cmd' = NoCmd
    /\ ncmds' = ncmds
    /\ UNCHANGED <<sessions, sess, nextSid, clients, cl, conn, exc, cancelled, dres,
                   nextDrv, nticks, nfaults>>

DisconnectFrames(x) == <<FC("disc_leave", x), FC("leave", x)>>

\* send_to_client resumes from drain(): a CancelledError passes its 'except
\* Exception'; a write error is caught and handle_client_disconnect called.
DrainResume(t) ==
    LET x == Top(t).c IN
    /\ Waits(t, "drain")
    /\ cancelled[t] \/ Head(dq[x]) = t
    /\ dq' = [dq EXCEPT ![x] = SelectSeq(@, LAMBDA u : u # t)]
    /\ sent' = NoSent
    /\ cur' = t
    /\ IF cancelled[t]
       THEN /\ cancelled' = [cancelled EXCEPT ![t] = FALSE]
            /\ exc' = [exc EXCEPT ![t] = "Cancelled"]
            /\ stack' = [stack EXCEPT ![t] = Below(t)]
            /\ UNCHANGED conn
       ELSE IF conn[x] = "open"
       THEN /\ stack' = [stack EXCEPT ![t] = Below(t)]
            /\ UNCHANGED <<conn, cancelled, exc>>
       ELSE /\ conn' = [conn EXCEPT ![x] = "closing"]
            /\ stack' = [stack EXCEPT ![t] =
                   Below(t) \o <<FC("send_disc", x)>> \o DisconnectFrames(x)]
            /\ UNCHANGED <<cancelled, exc>>
    /\ cmd' = NoCmd
    /\ ncmds' = ncmds
    /\ UNCHANGED <<sessions, sess, nextSid, clients, cl, dres, nextDrv, nticks, nfaults>>

\* send_to_client returns after the disconnect its except clause ran.
SendDiscCont(t) ==
    /\ Runs(t, "send_disc")
    /\ stack' = [stack EXCEPT ![t] = Below(t)]
    /\ cmd' = NoCmd
    /\ NoWrite
    /\ UNCHANGED <<sessions, sess, nextSid, clients, cl, conn, exc, cancelled, dres, nextDrv,
                   cur, ncmds, nticks, nfaults>>

\* ----------------------------------------------- handle_client_disconnect
\* After leave_session: mark the client, close its writer, await wait_closed.
DiscCont(t) ==
    LET c == Top(t).c IN
    /\ Runs(t, "disc_leave")
    /\ IF c \notin clients
       THEN /\ stack' = [stack EXCEPT ![t] = Below(t)]
            /\ UNCHANGED <<clients, cl, conn, cur>>
       ELSE /\ cl' = [cl EXCEPT ![c].connected = FALSE]
            /\ IF conn[c] # "closing"
               THEN /\ conn' = [conn EXCEPT ![c] = "closing"]
                    /\ stack' = [stack EXCEPT ![t] = Append(Below(t), FC("disc_wait", c))]
                    /\ cur' = NoTask
                    /\ UNCHANGED clients
               ELSE /\ clients' = clients \ {c}
                    /\ stack' = [stack EXCEPT ![t] = Below(t)]
                    /\ UNCHANGED <<conn, cur>>
    /\ cmd' = NoCmd
    /\ ncmds' = ncmds
    /\ NoWrite
    /\ UNCHANGED <<sessions, sess, nextSid, exc, cancelled, dres, nextDrv, nticks,
                   nfaults>>

\* wait_closed returns (its bare except swallows a CancelledError), then
\* del self.clients[client_id]: a KeyError when the id is no longer in the map.
DiscWaitResume(t) ==
    LET c == Top(t).c IN
    /\ Waits(t, "disc_wait")
    /\ cur' = t
    /\ cancelled' = [cancelled EXCEPT ![t] = FALSE]
    /\ stack' = [stack EXCEPT ![t] = Below(t)]
    /\ IF c \in clients
       THEN /\ clients' = clients \ {c}
            /\ UNCHANGED exc
       ELSE /\ exc' = [exc EXCEPT ![t] = "KeyError"]
            /\ UNCHANGED clients
    /\ cmd' = NoCmd
    /\ ncmds' = ncmds
    /\ NoWrite
    /\ UNCHANGED <<sessions, sess, nextSid, cl, conn, dres, nextDrv, nticks, nfaults>>

\* An exception passes through a frame that does not catch it.
Propagating == {"send_disc", "disc_leave", "leave_stop", "bcast", "join_leave", "stopcmd"}

Unwind(t) ==
    /\ cur = t
    /\ exc[t] # "none"
    /\ TopK(t) \in Propagating
    /\ stack' = [stack EXCEPT ![t] = Below(t)]
    /\ cmd' = NoCmd
    /\ NoWrite
    /\ UNCHANGED <<sessions, sess, nextSid, clients, cl, conn, exc, cancelled, dres, nextDrv,
                   cur, ncmds, nticks, nfaults>>

\* ----------------------------------------------------------- _timecode_loop
DriverDone(d, result) ==
    /\ dres' = [dres EXCEPT ![d] = result]
    /\ stack' = [stack EXCEPT ![D(d)] = <<>>]
    /\ cur' = NoTask

\* A loop that does not look at the running flag again after its sleep.
StillRunningUnchecked(s) == TRUE

\* _timecode_loop's 'if self.running' after the sleep.
StillRunning(s) == sess[s].running

\* The sleep ends: with the CancelledError the loop catches, or with the
\* increment and the timecode_update broadcast while the session is running.
Tick(d) ==
    LET s == Top(D(d)).s IN
    /\ Waits(D(d), "sleep")
    /\ IF cancelled[D(d)]
       THEN /\ DriverDone(d, "ok")
            /\ cancelled' = [cancelled EXCEPT ![D(d)] = FALSE]
            /\ UNCHANGED <<sess, nticks>>
       ELSE IF StillRunning(s)
       THEN /\ nticks < MaxTicks
            /\ nticks' = nticks + 1
            /\ sess' = [sess EXCEPT ![s].timecode =
                           increment(@, get_max_frames(sess[s].framerate))]
            /\ stack' = [stack EXCEPT ![D(d)] =
                   <<Frame("loop", None, s, d, NoMsg, {})>> \o
                   BcastFrames(s, TimecodeMsg("timecode_update",
                       increment(sess[s].timecode, get_max_frames(sess[s].framerate))))]
            /\ cur' = D(d)
            /\ UNCHANGED <<dres, cancelled>>
       ELSE /\ DriverDone(d, "ok")
            /\ UNCHANGED <<sess, nticks, cancelled>>
    /\ cmd' = NoCmd
    /\ ncmds' = ncmds
    /\ NoWrite
    /\ UNCHANGED <<sessions, nextSid, clients, cl, conn, exc, nextDrv, nfaults>>

\* 'while self.running' after the broadcast returned.
LoopCont(d) ==
    LET s == Top(D(d)).s IN
    /\ Runs(D(d), "loop")
    /\ IF sess[s].running
       THEN /\ stack' = [stack EXCEPT ![D(d)] = <<SleepFrame(s, d)>>]
            /\ cur' = NoTask
            /\ UNCHANGED dres
       ELSE DriverDone(d, "ok")
    /\ cmd' = NoCmd
    /\ ncmds' = ncmds
    /\ NoWrite
    /\ UNCHANGED <<sessions, sess, nextSid, clients, cl, conn, exc, cancelled, nextDrv,
                   nticks, nfaults>>

\* An exception reaches the loop: CancelledError is caught, any other ends
\* the task with that exception.
DriverCatch(d) ==
    /\ cur = D(d)
    /\ TopK(D(d)) = "loop"
    /\ exc[D(d)] # "none"
    /\ DriverDone(d, IF exc[D(d)] = "Cancelled" THEN "ok" ELSE "KeyError")
    /\ exc' = [exc EXCEPT ![D(d)] = "none"]
    /\ cmd' = NoCmd
    /\ ncmds' = ncmds
    /\ NoWrite
    /\ UNCHANGED <<sessions, sess, nextSid, clients, cl, conn, cancelled, nextDrv,
                   nticks, nfaults>>

\* ------------------------------------------------------------ specification
\* The steps every coroutine takes once a command or a tick has started it.
Internal ==
    \/ \E c \in ClientIds : HandlerReturn(c)
    \/ \E c \in ClientIds : HandlerCatch(c)
    \/ \E c \in ClientIds : HandlerExit(c)
    \/ \E t \in Tasks : LeaveEnter(t)
    \/ \E t \in Tasks : StopWaitResume(t)
    \/ \E t \in Tasks : LeaveCont(t)
    \/ \E t \in Tasks : JoinCont(t)
    \/ \E t \in Tasks : StopCont(t)
    \/ \E t \in Tasks : Bcast(t)
    \/ \E t \in Tasks : DrainResume(t)
    \/ \E t \in Tasks : SendDiscCont(t)
    \/ \E t \in Tasks : DiscCont(t)
    \/ \E t \in Tasks : DiscWaitResume(t)
    \/ \E t \in Tasks : Unwind(t)
    \/ \E d \in DriverIds : LoopCont(d)
    \/ \E d \in DriverIds : DriverCatch(d)

\* NumCallers clients that send well-formed commands, MaxCmds in all.
Command(c) ==
    /\ ncmds < MaxCmds
    /\ \/ CreateSession(c, "24", STR_WRAP)
       \/ \E sid \in SessionIds : JoinSession(c, sid)
       \/ LeaveSession(c)
       \/ StartTimecode(c)
       \/ StopTimecode(c)
       \/ ResetTimecode(c, STR_ZERO)

Next ==
    \/ \E c \in Callers : Connect(c)
    \/ \E c \in Callers : Eof(c)
    \/ \E c \in Callers : ConnBreak(c)
    \/ \E c \in Callers : Command(c)
    \/ \E d \in DriverIds : Tick(d)
    \/ Internal

Spec == Init /\ [][Next]_vars

\* NumCallers clients that send any command, with any framerate and timecode
\* string, WideCmds commands in all.
AnyCommand(c) ==
    /\ ncmds < WideCmds
    /\ \/ \E fr \in FramerateInputs, str \in TimecodeInputs : CreateSession(c, fr, str)
       \/ \E sid \in SessionIds : JoinSession(c, sid)
       \/ LeaveSession(c)
       \/ StartTimecode(c)
       \/ StopTimecode(c)
       \/ \E str \in TimecodeInputs : ResetTimecode(c, str)
       \/ UnknownCommand(c)

NextWide ==
    \/ \E c \in Callers : Connect(c)
    \/ \E c \in Callers : Eof(c)
    \/ \E c \in Callers : ConnBreak(c)
    \/ \E c \in Callers : AnyCommand(c)
    \/ \E d \in DriverIds : Tick(d)
    \/ Internal

SpecWide == Init /\ [][NextWide]_vars

\* Three clients that between them send one fixed sequence of commands, under
\* every schedule of the event loop, every tick, every transport fault and
\* every end of a connection: client 1 creates a session and starts its clock,
\* client 2 joins and leaves, client 1 creates a second session, client 3
\* joins the first session, starts its clock and stops it.
Script ==
    << Cmd(1, "create_session", "24", STR_WRAP, None),
       Cmd(1, "start_timecode", "", NoStr, None),
       Cmd(2, "join_session", "", NoStr, 1),
       Cmd(2, "leave_session", "", NoStr, None),
       Cmd(1, "create_session", "24", STR_WRAP, None),
       Cmd(3, "join_session", "", NoStr, 1),
       Cmd(3, "start_timecode", "", NoStr, None),
       Cmd(3, "stop_timecode", "", NoStr, None) >>

ScriptCommand ==
    /\ ncmds < Len(Script)
    /\ LET k == Script[ncmds + 1] IN
       \/ k.type = "create_session" /\ CreateSession(k.c, k.framerate, k.timecode)
       \/ k.type = "join_session" /\ JoinSession(k.c, k.session_id)
       \/ k.type = "leave_session" /\ LeaveSession(k.c)
       \/ k.type = "start_timecode" /\ StartTimecode(k.c)
       \/ k.type = "stop_timecode" /\ StopTimecode(k.c)

NextScript ==
    \/ \E c \in ClientIds : Connect(c)
    \/ \E c \in ClientIds : Eof(c)
    \/ \E c \in ClientIds : ConnBreak(c)
    \/ ScriptCommand
    \/ \E d \in DriverIds : Tick(d)
    \/ Internal

SpecScript == Init /\ [][NextScript]_vars

\* Two clients that between them send a second fixed sequence of commands:
\* client 1 creates a session, client 2 joins it, client 1 creates a second
\* session and starts its clock, client 2 starts the first session's clock,
\* client 1 leaves, client 2 stops the clock.
ScriptB ==
    << Cmd(1, "create_session", "24", STR_WRAP, None),
       Cmd(2, "join_session", "", NoStr, 1),
       Cmd(1, "create_session", "24", STR_WRAP, None),
       Cmd(1, "start_timecode", "", NoStr, None),
       Cmd(2, "start_timecode", "", NoStr, None),
       Cmd(1, "leave_session", "", NoStr, None),
       Cmd(2, "stop_timecode", "", NoStr, None) >>

ScriptCommandB ==
    /\ ncmds < Len(ScriptB)
    /\ LET k == ScriptB[ncmds + 1] IN
       \/ k.type = "create_session" /\ CreateSession(k.c, k.framerate, k.timecode)
       \/ k.type = "join_session" /\ JoinSession(k.c, k.session_id)
       \/ k.type = "leave_session" /\ LeaveSession(k.c)
       \/ k.type = "start_timecode" /\ StartTimecode(k.c)
       \/ k.type = "stop_timecode" /\ StopTimecode(k.c)

NextScriptB ==
    \/ \E c \in Callers : Connect(c)
    \/ \E c \in Callers : Eof(c)
    \/ \E c \in Callers : ConnBreak(c)
    \/ ScriptCommandB
    \/ \E d \in DriverIds : Tick(d)
    \/ Internal

SpecScriptB == Init /\ [][NextScriptB]_vars

\* Two clients around one clock: client 1 creates a 30 fps session at
\* 00:00:00:29, client 2 joins it, client 1 starts the clock, client 2 resets
\* it to 23:59:59:23, client 1 stops it, client 2 leaves, client 1 joins the
\* session again.
ScriptC ==
    << Cmd(1, "create_session", "30", STR_LAST, None),
       Cmd(2, "join_session", "", NoStr, 1),
       Cmd(1, "start_timecode", "", NoStr, None),
       Cmd(2, "reset_timecode", "", STR_WRAP, None),
       Cmd(1, "stop_timecode", "", NoStr, None),
       Cmd(2, "leave_session", "", NoStr, None),
       Cmd(1, "join_session", "", NoStr, 1) >>

\* The script's next command, dispatched to its client's handler.
Scripted(script) ==
    /\ ncmds < Len(script)
    /\ LET k == script[ncmds + 1] IN
       \/ k.type = "create_session" /\ CreateSession(k.c, k.framerate, k.timecode)
       \/ k.type = "join_session" /\ JoinSession(k.c, k.session_id)
       \/ k.type = "leave_session" /\ LeaveSession(k.c)
       \/ k.type = "start_timecode" /\ StartTimecode(k.c)
       \/ k.type = "stop_timecode" /\ StopTimecode(k.c)
       \/ k.type = "reset_timecode" /\ ResetTimecode(k.c, k.timecode)

ScriptCommandC == Scripted(ScriptC)

NextScriptC ==
    \/ \E c \in Callers : Connect(c)
    \/ \E c \in Callers : Eof(c)
    \/ \E c \in Callers : ConnBreak(c)
    \/ ScriptCommandC
    \/ \E d \in DriverIds : Tick(d)
    \/ Internal

SpecScriptC == Init /\ [][NextScriptC]_vars

\* ScriptB with client 1 joining the first session where it left: client 1
\* creates a session, client 2 joins it, client 1 creates a second session and
\* starts its clock, client 2 starts the first session's clock, client 1 joins
\* the first session, client 2 stops the clock.
ScriptE ==
    << Cmd(1, "create_session", "24", STR_WRAP, None),
       Cmd(2, "join_session", "", NoStr, 1),
       Cmd(1, "create_session", "24", STR_WRAP, None),
       Cmd(1, "start_timecode", "", NoStr, None),
       Cmd(2, "start_timecode", "", NoStr, None),
       Cmd(1, "join_session", "", NoStr, 1),
       Cmd(2, "stop_timecode", "", NoStr, None) >>

ScriptCommandE == Scripted(ScriptE)

NextScriptE ==
    \/ \E c \in Callers : Connect(c)
    \/ \E c \in Callers : Eof(c)
    \/ \E c \in Callers : ConnBreak(c)
    \/ ScriptCommandE
    \/ \E d \in DriverIds : Tick(d)
    \/ Internal

SpecScriptE == Init /\ [][NextScriptE]_vars

\* Two clients, each with a running session of its own: one stops its clock
\* and the other resets its timecode while both drivers tick; then the second
\* client joins the first session and the first client leaves.
ScriptF ==
    << Cmd(1, "create_session", "24", STR_WRAP, None),
       Cmd(1, "start_timecode", "", NoStr, None),
       Cmd(2, "create_session", "24", STR_WRAP, None),
       Cmd(2, "start_timecode", "", NoStr, None),
       Cmd(1, "stop_timecode", "", NoStr, None),
       Cmd(2, "reset_timecode", "", STR_ZERO, None),
       Cmd(2, "join_session", "", NoStr, 1),
       Cmd(1, "leave_session", "", NoStr, None) >>

ScriptCommandF == Scripted(ScriptF)

NextScriptF ==
    \/ \E c \in Callers : Connect(c)
    \/ \E c \in Callers : Eof(c)
    \/ \E c \in Callers : ConnBreak(c)
    \/ ScriptCommandF
    \/ \E d \in DriverIds : Tick(d)
    \/ Internal

SpecScriptF == Init /\ [][NextScriptF]_vars

\* ------------------------------------------------- the clock on its own
\* A TimecodeSession outside any server: object 1 is constructed with one of
\* the supported framerates and a timecode at the edges of its ranges, and
\* its loop body applies increment(get_max_frames()) to it; object 2 is
\* constructed alike and left at the initial value.
EdgeTimecodes(framerate) ==
    {TC(h, m, s, f) : h \in {0, 23}, m \in {0, 59}, s \in {0, 58, 59},
                      f \in {0, get_max_frames(framerate) - 2, get_max_frames(framerate) - 1}}

InitClock ==
    /\ \E framerate \in DOMAIN SUPPORTED_FRAMERATES : \E tc \in EdgeTimecodes(framerate) :
          sess = [s \in SessionIds |->
                    [BlankSession EXCEPT !.framerate = framerate, !.timecode = tc]]
    /\ sessions = {}
    /\ nextSid = 1
    /\ clients = {}
    /\ cl = [c \in ClientIds |-> [session_id |-> None, connected |-> FALSE]]
    /\ conn = [c \in ClientIds |-> "open"]
    /\ stack = [t \in Tasks |-> <<>>]
    /\ exc = [t \in Tasks |-> "none"]
    /\ cancelled = [t \in Tasks |-> FALSE]
    /\ dres = [d \in DriverIds |-> "unborn"]
    /\ nextDrv = 1
    /\ cur = NoTask
    /\ cmd = NoCmd
    /\ sent = NoSent
    /\ dq = [c \in ClientIds |-> <<>>]
    /\ ncmds = 0
    /\ nticks = 0
    /\ nfaults = 0

\* self.timecode.increment(self.get_max_frames()), nticks counting the calls.
Advance ==
    /\ nticks < MaxFrameSteps
    /\ nticks' = nticks + 1
    /\ sess' = [sess EXCEPT ![1].timecode =
                    increment(@, get_max_frames(sess[1].framerate))]
    /\ UNCHANGED <<sessions, nextSid, clients, cl, conn, stack, exc, cancelled, dres,
                   nextDrv, cur, cmd, sent, dq, ncmds, nfaults>>

NextClock == Advance

SpecClock == InitClock /\ [][NextClock]_vars

\* The same clock with a third subscriber, the only client whose connection
\* ends: client 1 creates the session, clients 2 and 3 join it, client 1
\* starts the clock, client 2 resets it, client 1 stops and restarts it,
\* client 2 leaves, client 1 joins the session again.
ScriptD ==
    << Cmd(1, "create_session", "30", STR_LAST, None),
       Cmd(2, "join_session", "", NoStr, 1),
       Cmd(3, "join_session", "", NoStr, 1),
       Cmd(1, "start_timecode", "", NoStr, None),
       Cmd(2, "reset_timecode", "", STR_WRAP, None),
       Cmd(1, "stop_timecode", "", NoStr, None),
       Cmd(1, "start_timecode", "", NoStr, None),
       Cmd(2, "leave_session", "", NoStr, None),
       Cmd(1, "join_session", "", NoStr, 1) >>

ScriptCommandD == Scripted(ScriptD)

NextScriptD ==
    \/ \E c \in ClientIds : Connect(c)
    \/ Eof(3)
    \/ ConnBreak(3)
    \/ ScriptCommandD
    \/ \E d \in DriverIds : Tick(d)
    \/ Internal

SpecScriptD == Init /\ [][NextScriptD]_vars

\* ------------------------------------------------------------- claims
\* The live driver tasks of session s: created by start_timecode for s and
\* not finished.
LiveDrivers(s) ==
    {d \in DriverIds : dres[d] = "live" /\ stack[D(d)] # <<>> /\ stack[D(d)][1].s = s}

\* This step dispatches command type of a client that is a member of a
\* session of the registry.
MemberCommand(type) ==
    /\ cmd'.type = type
    /\ cmd'.c \in clients
    /\ cl[cmd'.c].session_id \in sessions

\* This step's only write is error text to the client whose command it
\* dispatched, and the command ends there (no broadcast is begun).
RepliesError(text) ==
    /\ sent' = IF CanWrite(cmd'.c) THEN Write(cmd'.c, ErrorMsg(text)) ELSE NoSent
    /\ \A i \in DOMAIN stack'[H(cmd'.c)] : stack'[H(cmd'.c)][i].k # "bcast"

StartOnRunning == MemberCommand("start_timecode") /\ sess[cl[cmd'.c].session_id].running

\* C1: in every reachable state each session of the registry has at most one
\* live driver task, and a start_timecode of a member of a running session is
\* answered 'Timecode already running' and creates no driver, changes no
\* session and broadcasts nothing.
C1_AtMostOneDriver ==
    [][ /\ \A s \in sessions' : Cardinality(LiveDrivers(s)') <= 1
        /\ StartOnRunning =>
              /\ RepliesError("Timecode already running")
              /\ sess' = sess /\ dres' = dres /\ nextDrv' = nextDrv ]_vars

\* The sessions of the registry that have client c among their subscribers.
SessionsOf(c) == {s \in sessions : c \in sess[s].clients}

\* C2: in every reachable state every client is in the subscriber set of at
\* most one session of the registry.
C2_OneSessionPerClient == \A c \in ClientIds : Cardinality(SessionsOf(c)) <= 1

\* A leave_session call that removed the last subscriber of session s has not
\* returned yet: it is at, or past, the await inside stop_timecode.
LeaveInFlight(s) ==
    \E t \in Tasks : \E i \in DOMAIN stack[t] :
        stack[t][i].k = "leave_stop" /\ stack[t][i].s = s

\* Session s was created, a leave_session removed its last subscriber, and
\* that call has returned.
Emptied(s) == s < nextSid /\ sess[s].clients = {} /\ ~LeaveInFlight(s)

\* C3: once the leave_session that removed the last subscriber of a session
\* has returned, the session is not in the registry, no tick changes its
\* timecode, and a join_session with its id is answered 'Session not found'.
C3_LastLeaveDeletes ==
    [][ \A s \in SessionIds :
          /\ Emptied(s)' => s \notin sessions'
          /\ Emptied(s) =>
                /\ sess'[s].timecode # sess[s].timecode => cmd'.type = "reset_timecode"
                /\ (cmd'.type = "join_session" /\ cmd'.session_id = s)
                      => RepliesError("Session not found") ]_vars

\* C4: whenever the event loop is free to run another task, every session of
\* the registry has at least one subscriber.
C4_NeverEmptyInRegistry == cur = NoTask => \A s \in sessions : sess[s].clients # {}

\* This step is join_session's continuation for client c after its implicit
\* leave_session returned normally; the command was accepted because its
\* session id was in the registry.
JoinCompletes(c) ==
    /\ cur = H(c) /\ exc[H(c)] = "none" /\ TopK(H(c)) = "join_leave"
    /\ stack'[H(c)] # stack[H(c)]
    /\ c \in clients

\* C5: a join_session whose session id was in the registry ends with the
\* requester among that session's subscribers, the requester's session_id set
\* to it, and a session_joined reply with the session's framerate, timecode
\* and running flag, whatever session the requester was in before.
C5_JoinFailsOnlyUnknown ==
    [][ \A c \in ClientIds : JoinCompletes(c) =>
          LET sid == Top(H(c)).s IN
          /\ sid \in sessions'
          /\ c \in sess'[sid].clients
          /\ cl'[c].session_id = sid
          /\ sent' = IF CanWrite(c)
                     THEN Write(c, JoinedMsg(sid, sess'[sid].framerate,
                                             sess'[sid].timecode, sess'[sid].running))
                     ELSE NoSent ]_vars

\* The enumerated framerates of the protocol.
EnumeratedFramerates == {"23.976", "24", "29.97", "30", "50", "59.94", "60"}

\* C6: a create_session whose framerate is not one of the enumerated ones is
\* answered 'Unsupported framerate' and changes neither the registry, nor any
\* session's subscribers, nor the requester's session_id.
C6_UnsupportedFramerate ==
    [][ (cmd'.type = "create_session" /\ cmd'.framerate \notin EnumeratedFramerates) =>
          /\ RepliesError("Unsupported framerate")
          /\ sessions' = sessions
          /\ \A s \in SessionIds : sess'[s].clients = sess[s].clients
          /\ cl'[cmd'.c].session_id = cl[cmd'.c].session_id ]_vars

C6_Witness ==
    /\ cmd.type = "create_session" /\ cmd.framerate = "25"
    /\ sent.m = ErrorMsg("Unsupported framerate")
    /\ cl[cmd.c].session_id \in sessions

\* C7: a create_session of a connected client with an enumerated framerate
\* and a timecode that parses adds exactly one session to the registry, not
\* running, without a driver, with the parsed timecode and the requester as its
\* only subscriber; sets the requester's session_id to it; and changes no
\* other session and no driver.
C7_CreateAddsOneSession ==
    [][ ( /\ cmd'.type = "create_session"
          /\ cmd'.c \in clients
          /\ cmd'.framerate \in EnumeratedFramerates
          /\ from_string(cmd'.timecode).ok ) =>
          \E n \in SessionIds \ sessions :
             /\ sessions' = sessions \cup {n}
             /\ sess'[n] = [framerate |-> cmd'.framerate,
                            timecode |-> from_string(cmd'.timecode).tc,
                            running |-> FALSE, clients |-> {cmd'.c}, task |-> None]
             /\ LiveDrivers(n)' = {}
             /\ cl'[cmd'.c].session_id = n
             /\ \A s \in SessionIds \ {n} : sess'[s] = sess[s]
             /\ dres' = dres ]_vars

C7_Witness ==
    /\ cmd.type = "create_session"
    /\ sent.m.type = "session_created"
    /\ cl[cmd.c].session_id \in sessions
    /\ \E s \in sessions : s # cl[cmd.c].session_id /\ sess[s].running

\* The string is HH:MM:SS:FF with every component in its range for framerate.
InRange(str, framerate) ==
    LET parts == Split(str) IN
    /\ Len(parts) = 4
    /\ \A i \in 1..4 : AllDigits(parts[i])
    /\ NatOf(parts[1]) <= 23
    /\ NatOf(parts[2]) <= 59
    /\ NatOf(parts[3]) <= 59
    /\ NatOf(parts[4]) <= get_max_frames(framerate) - 1

\* C8: a create_session with an enumerated framerate whose initial timecode is
\* not HH:MM:SS:FF with every component in range is answered 'Invalid
\* timecode format' and creates no session.
C8_MalformedTimecode ==
    [][ ( /\ cmd'.type = "create_session"
          /\ cmd'.framerate \in EnumeratedFramerates
          /\ ~InRange(cmd'.timecode, cmd'.framerate) ) =>
          /\ RepliesError("Invalid timecode format")
          /\ sessions' = sessions ]_vars

\* C9: a stop_timecode of a member of a session that is not running is
\* answered 'Timecode not running', broadcasts nothing and changes no session,
\* no driver and no pending cancellation.
C9_StopWhenStopped ==
    [][ (MemberCommand("stop_timecode") /\ ~sess[cl[cmd'.c].session_id].running) =>
          /\ RepliesError("Timecode not running")
          /\ sess' = sess /\ dres' = dres /\ cancelled' = cancelled ]_vars

C9_Witness ==
    /\ cmd.type = "stop_timecode"
    /\ sent.to = cmd.c
    /\ sent.m = ErrorMsg("Timecode not running")
    /\ cl[cmd.c].session_id \in sessions

\* This step begins a timecode_update broadcast in driver d.
BeginsUpdate(d) ==
    /\ \A i \in DOMAIN stack[D(d)] : stack[D(d)][i].k # "bcast"
    /\ \E i \in DOMAIN stack'[D(d)] : stack'[D(d)][i].k = "bcast"

\* C10: while a session's running flag is false, no step of a driver changes
\* its timecode or begins a timecode_update broadcast for it.
C10_NoTickAfterStop ==
    [][ \A s \in SessionIds : (s < nextSid /\ ~sess[s].running) =>
          /\ sess'[s].timecode # sess[s].timecode => cmd'.type = "reset_timecode"
          /\ \A d \in LiveDrivers(s) : ~BeginsUpdate(d) ]_vars

\* A stop has been observed while a driver of the session sleeps towards its
\* next tick with no cancellation pending.
C10_Witness ==
    \E s \in SessionIds : \E d \in LiveDrivers(s) :
        /\ ~sess[s].running
        /\ TopK(D(d)) = "sleep"
        /\ ~cancelled[D(d)]

\* The client's transport takes a write and send_to_client's guard passes.
Healthy(x) == CanWrite(x) /\ conn[x] = "open"

\* C11: a failed delivery to one client of a broadcast's snapshot does not keep
\* the message from the others: when an error raised in that client's
\* disconnect path leaves the broadcast loop, no client still to be served is
\* healthy and still subscribed; and each client the loop reaches that passes
\* send_to_client's guard is written the message.
C11_BroadcastIsolation ==
    [][ \A t \in Tasks :
          (cur = t /\ TopK(t) = "bcast") =>
             /\ (exc[t] = "KeyError" /\ stack'[t] = Below(t))
                   => \A x \in Top(t).r :
                         ~(Healthy(x) /\ x \in sess[Top(t).s].clients)
             /\ (exc[t] = "none" /\ Top(t).r # {}) =>
                   \E x \in Top(t).r :
                      sent' = IF CanWrite(x) THEN Write(x, Top(t).m) ELSE NoSent ]_vars

\* Task t's send_to_client is in its except clause, called from a broadcast.
InBroadcastRecovery(t) ==
    /\ cur = t
    /\ TopK(t) = "send_disc"
    /\ Len(stack[t]) > 1
    /\ stack[t][Len(stack[t]) - 1].k = "bcast"

\* C12: when a write of a broadcast to client x fails, the disconnect path
\* that send_to_client runs ends without an exception reaching the broadcast,
\* and at its end x is in no session's subscriber set and not in the client map.
C12_DeliveryFailureRecovered ==
    \A t \in Tasks : InBroadcastRecovery(t) =>
        /\ exc[t] = "none"
        /\ Top(t).c \notin clients
        /\ \A s \in sessions : Top(t).c \notin sess[s].clients

\* The timecode strings of the ticks that follow value tc at a framerate.
RECURSIVE TicksAfter(_, _, _)
TicksAfter(tc, framerate, n) ==
    IF n = 0 THEN {}
    ELSE LET nxt == increment(tc, get_max_frames(framerate)) IN
         {to_string(nxt)} \cup TicksAfter(nxt, framerate, n - 1)

\* The timecode_reset broadcasts under way that have not reached client x yet,
\* each with the task that makes it.
ResetsOwed(x) ==
    {e \in UNION {{[t |-> t, f |-> stack[t][i]] : i \in 1..Len(stack[t])} : t \in Tasks} :
        e.f.k = "bcast" /\ e.f.m.type = "timecode_reset" /\ x \in e.f.r}

\* Task t is not held in drain() on a client that the running broadcast still
\* has to serve: the running broadcast does not merely iterate the snapshot
\* in another order than t's.
NotAhead(t) == TopK(t) = "drain" => Top(t).c \notin Top(cur).r

\* C13: reset_timecode(v) on a running session begins a timecode_reset
\* broadcast that carries v to the session's subscribers, and while that
\* broadcast has not reached subscriber x yet, x is written no timecode_update
\* whose value a later tick counted from v.
C13_ResetBeforeNextTick ==
    [][ /\ \A c \in ClientIds :
             LET sid == cl[c].session_id IN
             (/\ cmd'.type = "reset_timecode" /\ cmd'.c = c
              /\ c \in clients /\ sid \in sessions /\ sess[sid].running
              /\ from_string(cmd'.timecode).ok)
             => /\ Top(H(c))'.k = "bcast"
                /\ Top(H(c))'.m.type = "timecode_reset"
                /\ Top(H(c))'.m.timecode = cmd'.timecode
                /\ Top(H(c))'.r = sess[sid].clients
        /\ (cur \in Tasks /\ sent'.m.type = "timecode_update") =>
             \A e \in ResetsOwed(sent'.to) :
                (e.f.s = Top(cur).s /\ NotAhead(e.t))
                => sent'.m.timecode \notin
                      TicksAfter(from_string(e.f.m.timecode).tc,
                                 sess[e.f.s].framerate, MaxTicks) ]_vars

\* The broadcasts to session s under way, each with the task that makes it.
BroadcastsOf(s) ==
    {e \in UNION {{[t |-> t, f |-> stack[t][i]] : i \in 1..Len(stack[t])} : t \in Tasks} :
        e.f.k = "bcast" /\ e.f.s = s}

\* Client x is a subscriber of session s with a working connection.
Listening(x, s) == x \in sess[s].clients /\ cl[x].session_id = s /\ Healthy(x)

\* Task t waits in drain() on a client that has left session s or that
\* send_to_client's guard rejects: later broadcasts to s pass that client by.
HeldOnGone(t, s) ==
    /\ TopK(t) = "drain"
    /\ ~(Top(t).c \in sess[s].clients /\ CanWrite(Top(t).c))

\* C14: the subscribers of a session see one clock. Each tick broadcasts the
\* session's timecode advanced by one frame (a session out of the registry
\* advances without a broadcast); and two subscribers x and y are never sent
\* two broadcasts of their session in opposite orders: no step writes a
\* broadcast to y that x is still to get, while another broadcast that x has
\* got is held up before it reaches y.
C14_ConsistentCounter ==
    [][ /\ \A d \in DriverIds :
             (nticks' = nticks + 1 /\ cur' = D(d)) =>
                LET s == Top(D(d)).s
                    nxt == increment(sess[s].timecode, get_max_frames(sess[s].framerate))
                IN /\ sess'[s].timecode = nxt
                   /\ s \in sessions =>
                        Top(D(d))'.m = TimecodeMsg("timecode_update", nxt)
        /\ (cur \in Tasks /\ TopK(cur) = "bcast" /\ sent'.ok) =>
             LET y == sent'.to
                 s == Top(cur).s
             IN \A e \in BroadcastsOf(s) : \A x \in Top(cur).r \ {y} :
                  ~(/\ e.t # cur
                    /\ HeldOnGone(e.t, s)
                    /\ y \in e.f.r
                    /\ x \notin e.f.r
                    /\ Listening(x, s)
                    /\ Listening(y, s)) ]_vars

\* floor(framerate) for the supported framerates, as the specification lists it.
FloorFrames(framerate) ==
    CASE framerate = "23.976" -> 23 [] framerate = "24" -> 24 [] framerate = "29.97" -> 29
      [] framerate = "30" -> 30 [] framerate = "50" -> 50 [] framerate = "59.94" -> 59
      [] framerate = "60" -> 60

\* C15: from an in-range timecode with frames = 0, the first maxFrames - 1
\* increments change only the frame count, and the maxFrames-th one returns it
\* to 0 and advances the time by exactly one second, seconds 59 carrying into
\* the minutes and minutes 59 into the hours (hour 23 into hour 0), where
\* maxFrames is floor(framerate): 23, 24, 29, 30, 50, 59, 60.
C15_SecondAfterMaxFrames ==
    LET start == sess[2].timecode
        now == sess[1].timecode
        maxFrames == FloorFrames(sess[1].framerate)
        carryS == start.seconds = 59
        carryM == carryS /\ start.minutes = 59
    IN start.frames = 0 =>
         /\ nticks < maxFrames => now = [start EXCEPT !.frames = nticks]
         /\ nticks = maxFrames =>
               /\ now.frames = 0
               /\ now.seconds = IF carryS THEN 0 ELSE start.seconds + 1
               /\ now.minutes = IF carryM THEN 0
                                ELSE IF carryS THEN start.minutes + 1 ELSE start.minutes
               /\ now.hours = IF carryM THEN (start.hours + 1) % 24 ELSE start.hours

\* 00:59:59:00 at 29.97 fps has become 01:00:00:00 after 29 increments.
C15_Witness ==
    /\ sess[1].framerate = "29.97"
    /\ sess[2].timecode = TC(0, 59, 59, 0)
    /\ nticks = 29
    /\ sess[1].timecode = TC(1, 0, 0, 0)

\* C16: one increment from 23:59:59:(maxFrames - 1) gives 00:00:00:00, and
\* no increment from any other in-range timecode decreases the hours.
C16_DayWrap ==
    [][ LET pre == sess[1].timecode
            post == sess'[1].timecode
            last == TC(23, 59, 59, FloorFrames(sess[1].framerate) - 1)
        IN /\ pre = last => post = TC(0, 0, 0, 0)
           /\ post.hours < pre.hours => pre = last ]_vars

\* 23:59:59:58 at 59.94 fps has been incremented once, to 00:00:00:00.
C16_Witness ==
    /\ sess[1].framerate = "59.94"
    /\ sess[2].timecode = TC(23, 59, 59, 58)
    /\ nticks = 1
    /\ sess[1].timecode = TC(0, 0, 0, 0)

\* The string "00:00:01:00".
STR_SECOND == <<"0", "0", ":", "0", "0", ":", "0", "1", ":", "0", "0">>

\* C17: a start_timecode that starts the session's clock leaves the session's timecode T as it is
\* and broadcasts timecode_started carrying T; after that T changes only by a
\* reset_timecode or by a tick, and each tick sets it to increment(T) and
\* broadcasts that value as timecode_update, so that the first update after
\* the start carries increment(T): for 30 fps and 00:00:00:29 it is
\* 00:00:01:00.
C17_FirstUpdateAfterStart ==
    [][ /\ \A c \in ClientIds :
             LET sid == cl[c].session_id IN
             (/\ cmd'.type = "start_timecode" /\ cmd'.c = c
              /\ c \in clients /\ sid \in sessions /\ StartGuard(sid))
             => /\ sess'[sid].running
                /\ sess'[sid].timecode = sess[sid].timecode
                /\ Top(H(c))'.k = "bcast"
                /\ Top(H(c))'.m.type = "timecode_started"
                /\ Top(H(c))'.m.timecode = to_string(sess[sid].timecode)
        /\ \A s \in sessions :
             sess'[s].timecode # sess[s].timecode =>
                \/ cmd'.type = "reset_timecode"
                \/ \E d \in DriverIds :
                     /\ cur' = D(d)
                     /\ Top(D(d)).s = s
                     /\ nticks' = nticks + 1
                     /\ sess'[s].timecode =
                           increment(sess[s].timecode, FloorFrames(sess[s].framerate))
                     /\ Top(D(d))'.k = "bcast"
                     /\ Top(D(d))'.r = sess[s].clients
                     /\ Top(D(d))'.m.type = "timecode_update"
                     /\ Top(D(d))'.m.timecode = to_string(sess'[s].timecode)
                     /\ (sess[s].framerate = "30" /\ sess[s].timecode = TC(0, 0, 0, 29))
                           => Top(D(d))'.m.timecode = STR_SECOND
        /\ (sent'.ok /\ cur \in Tasks /\ TopK(cur) = "bcast") => sent'.m = Top(cur).m ]_vars

\* Client 2, which joined the 30 fps session created at 00:00:00:29, is
\* written the first tick's timecode_update, carrying 00:00:01:00.
C17_Witness ==
    /\ nticks = 1
    /\ sent.to = 2
    /\ sent.ok
    /\ sent.m.type = "timecode_update"
    /\ sent.m.timecode = STR_SECOND

\* C18: once handle_client has ended for client c, whose finally clause runs
\* handle_client_disconnect, c is in no session's subscriber set and is not
\* in the client map.
C18_DisconnectLeaves ==
    \A c \in ClientIds :
        TopK(H(c)) = "exit" =>
            /\ c \notin clients
            /\ \A s \in sessions : c \notin sess[s].clients

\* The command this step dispatches is one the protocol answers with an
\* error: an unsupported framerate, a timecode that is not HH:MM:SS:FF in
\* range, an unknown session id, a clock command without a current session,
\* a start of a running clock, a stop of a stopped one, an unknown type.
CommandError ==
    LET c == cmd'.c
        sid == cl[c].session_id
    IN \/ /\ cmd'.type = "create_session"
          /\ \/ cmd'.framerate \notin EnumeratedFramerates
             \/ ~InRange(cmd'.timecode, cmd'.framerate)
       \/ cmd'.type = "join_session" /\ cmd'.session_id \notin sessions
       \/ /\ cmd'.type \in {"start_timecode", "stop_timecode", "reset_timecode"}
          /\ (c \notin clients \/ sid = None)
       \/ /\ MemberCommand("reset_timecode")
          /\ ~InRange(cmd'.timecode, sess[sid].framerate)
       \/ StartOnRunning
       \/ MemberCommand("stop_timecode") /\ ~sess[sid].running
       \/ cmd'.type = "unknown"

\* C19: a command that is an error is answered with an error message to its
\* sender and to nobody else, leaves the registry, every session and every
\* client's membership as they were, and leaves the sender's handler serving
\* the connection.
C19_ErrorsLeaveStateAlone ==
    [][ (cmd'.type # "" /\ CommandError) =>
          LET c == cmd'.c IN
          /\ CanWrite(c) => (sent'.to = c /\ sent'.m.type = "error")
          /\ sent'.to \in {c, None}
          /\ \A i \in DOMAIN stack'[H(c)] : stack'[H(c)][i].k # "bcast"
          /\ sessions' = sessions
          /\ sess' = sess
          /\ cl' = cl
          /\ clients' = clients
          /\ stack'[H(c)] # <<>>
          /\ stack'[H(c)][Len(stack'[H(c)])].k \in {"read", "drain"} ]_vars

\* C20: a step that removes client c from a session that keeps another
\* subscriber leaves the session in the registry, with its timecode, running
\* flag and driver as they were and the other subscribers in place; and no
\* step takes out of the registry a session in which a subscriber has
\* another subscriber beside it.
C20_RemovalKeepsSession ==
    [][ /\ \A s \in sessions : \A c \in ClientIds :
             (c \in sess[s].clients /\ c \notin sess'[s].clients /\ sess'[s].clients # {})
             => /\ s \in sessions'
                /\ sess'[s] = [sess[s] EXCEPT !.clients = @ \ {c}]
                /\ dres' = dres
                /\ cancelled' = cancelled
        /\ \A s \in sessions \ sessions' : \A c \in sess[s].clients :
             sess[s].clients \ {c} = {} ]_vars

\* The driver task that session s's handle names is present and has not
\* finished.
DriverActive(s) == sess[s].task # None /\ dres[sess[s].task] = "live"

\* C21: in every state in which the event loop is free to run any coroutine,
\* every session of the registry is running if and only if its driver handle
\* is set and names a live task.
C21_RunningIffDriver ==
    cur = NoTask => \A s \in sessions : sess[s].running <=> DriverActive(s)

\* This step begins a broadcast of timecode_started in the handler of the
\* client whose command it dispatched.
BeginsStarted ==
    \E i \in DOMAIN stack'[H(cmd'.c)] :
        /\ stack'[H(cmd'.c)][i].k = "bcast"
        /\ stack'[H(cmd'.c)][i].m.type = "timecode_started"

\* C22: a start_timecode of a member that passes the checks of the command
\* and begins the timecode_started broadcast leaves the session running with
\* a live driver as its task.
C22_StartedMeansRunning ==
    [][ (MemberCommand("start_timecode") /\ BeginsStarted) =>
            LET s == cl[cmd'.c].session_id IN
            /\ sess'[s].running
            /\ sess'[s].task # None
            /\ dres'[sess'[s].task] = "live" ]_vars

\* Task t is suspended inside TimecodeSession.stop_timecode for session s:
\* the running flag is cleared and the handle not yet, and the leave or stop
\* that called it has not finished its update of the session.
InUpdate(t, s) ==
    \E i \in DOMAIN stack[t] : stack[t][i].k = "stop_wait" /\ stack[t][i].s = s

\* This step dispatches a command that reads or writes session s: a join of
\* s, or a leave, start, stop or reset of a client whose session is s.
OperatesOn(s) ==
    /\ s \in sessions
    /\ \/ cmd'.type = "join_session" /\ cmd'.session_id = s
       \/ /\ cmd'.type \in {"leave_session", "start_timecode", "stop_timecode",
                            "reset_timecode"}
          /\ cmd'.c \in clients
          /\ cl[cmd'.c].session_id = s

\* C23: the operations on one session do not interleave. No command that
\* reads or writes session s is handled while another client's operation is
\* suspended in the middle of its update of s.
C23_Serialized ==
    [][ \A s \in SessionIds : \A t \in Tasks :
           (InUpdate(t, s) /\ cmd'.c # None /\ t # H(cmd'.c)) => ~OperatesOn(s) ]_vars

\* Every field of timecode tc is within its bound for max_frames frames a second.
WithinBounds(tc, max_frames) ==
    /\ tc.hours \in 0..23
    /\ tc.minutes \in 0..59
    /\ tc.seconds \in 0..59
    /\ tc.frames \in 0..(max_frames - 1)

\* C24: in every reachable state the timecode of every session of the
\* registry has hours in 0..23, minutes and seconds in 0..59 and frames below
\* the floor of the session's framerate.
C24_TimecodeInRange ==
    \A s \in sessions : WithinBounds(sess[s].timecode, FloorFrames(sess[s].framerate))

\* No field of timecode tc is negative.
NonNegative(tc) == tc.hours >= 0 /\ tc.minutes >= 0 /\ tc.seconds >= 0 /\ tc.frames >= 0

\* C25: one increment normalizes a timecode. Whenever a tick increments the
\* timecode of a session and no field of it was negative, every field is
\* within its bound afterwards.
C25_NormalizedByIncrement ==
    [][ \A s \in SessionIds :
           ( /\ nticks' = nticks + 1
             /\ sess'[s].timecode # sess[s].timecode
             /\ NonNegative(sess[s].timecode) ) =>
           WithinBounds(sess'[s].timecode, FloorFrames(sess[s].framerate)) ]_vars

\* The string is exactly four colon-separated fields, each one or more digits.
FourNaturals(str) ==
    LET parts == Split(str) IN Len(parts) = 4 /\ \A i \in 1..4 : AllDigits(parts[i])

\* The timecode whose fields are the four numbers of the string, as written.
Verbatim(str) ==
    LET parts == Split(str) IN
    TC(NatOf(parts[1]), NatOf(parts[2]), NatOf(parts[3]), NatOf(parts[4]))

\* C26: the parser accepts a string if and only if it is four colon-separated
\* nonnegative integers, and takes them as written. A create_session with an
\* enumerated framerate registers a session with that timecode when the
\* string is of that form and is answered 'Invalid timecode format' otherwise;
\* a reset_timecode of a member sets that timecode or is answered alike.
C26_ParseAccepts ==
    [][ /\ (cmd'.type = "create_session" /\ cmd'.framerate \in EnumeratedFramerates) =>
             IF FourNaturals(cmd'.timecode)
             THEN /\ sessions' = sessions \cup {nextSid}
                  /\ sess'[nextSid].timecode = Verbatim(cmd'.timecode)
             ELSE /\ RepliesError("Invalid timecode format")
                  /\ sessions' = sessions
        /\ MemberCommand("reset_timecode") =>
             IF FourNaturals(cmd'.timecode)
             THEN sess'[cl[cmd'.c].session_id].timecode = Verbatim(cmd'.timecode)
             ELSE /\ RepliesError("Invalid timecode format")
                  /\ sess' = sess ]_vars

\* C27: a reset_timecode of a member of a session, with a value of four
\* nonnegative integers, sets the session's timecode to that value, running
\* or stopped, and leaves its running flag, its driver, its subscribers and
\* every other session as they were; with any other value it is answered
\* 'Invalid timecode format', changes no session and broadcasts nothing.
C27_ResetSetsExactly ==
    [][ MemberCommand("reset_timecode") =>
           LET s == cl[cmd'.c].session_id IN
           IF FourNaturals(cmd'.timecode)
           THEN /\ sess' = [sess EXCEPT ![s].timecode = Verbatim(cmd'.timecode)]
                /\ dres' = dres
                /\ cancelled' = cancelled
                /\ sessions' = sessions
           ELSE /\ RepliesError("Invalid timecode format")
                /\ sess' = sess
                /\ sessions' = sessions ]_vars

\* The event loop runs every coroutine that can run: a woken coroutine is
\* resumed, a sleep ends, a cancellation is delivered.
Fairness ==
    /\ WF_vars(Internal)
    /\ \A d \in DriverIds : WF_vars(Tick(d))

SpecLiveB == Init /\ [][NextScriptB]_vars /\ Fairness

\* The stop of session s that task t is suspended in has returned: t is no
\* longer inside it, the driver it awaited has finished and the handle of s
\* is cleared.
StopReturned(t, s) ==
    /\ ~InUpdate(t, s)
    /\ sess[s].task = None
    /\ LiveDrivers(s) = {}

\* C28: every stop of a clock terminates. A stop_timecode, leave or disconnect
\* that has cleared the running flag of session s and awaits its driver
\* eventually returns with the driver finished and the handle cleared.
C28_StopTerminates ==
    \A t \in Tasks : \A s \in SessionIds : InUpdate(t, s) ~> StopReturned(t, s)

\* C29: whenever the event loop is free, a client of the client map is among
\* the subscribers of a session of the registry if and only if its session_id
\* is that session's id, and a session_id that is set names a session of the
\* registry.
C29_BackReference ==
    cur = NoTask =>
        \A c \in clients :
            /\ \A s \in sessions : c \in sess[s].clients <=> cl[c].session_id = s
            /\ cl[c].session_id # None => cl[c].session_id \in sessions

\* C30: whenever the event loop is free, every subscriber of every session of
\* the registry is a key of the client map.
C30_SubscribersRegistered ==
    cur = NoTask => \A s \in sessions : sess[s].clients \subseteq clients

\* Every client that connected has disconnected and its handler has ended:
\* the client map is empty and no handler task is anywhere but at its end.
AllGone ==
    /\ cur = NoTask
    /\ clients = {}
    /\ \A c \in ClientIds : stack[H(c)] \in {<<>>, <<F0("exit")>>}
    /\ \E c \in ClientIds : stack[H(c)] # <<>>

\* C31: no orphaned sessions or clocks. Whenever every client has
\* disconnected and every disconnect has been handled, the session map is
\* empty and no driver task is alive.
C31_NoOrphans ==
    AllGone => (sessions = {} /\ \A d \in DriverIds : dres[d] # "live")

\* C32: a broadcast of a session is delivered only to clients whose
\* session_id names that session. Whenever a step of a broadcast of session
\* s writes its message to client x and the transport takes it, the
\* session_id of x is s.
C32_OnlyCurrentSession ==
    [][ (cur \in Tasks /\ TopK(cur) = "bcast" /\ sent'.ok) =>
            cl[sent'.to].session_id = Top(cur).s ]_vars

\* The frames of a startClock, stopClock or resetClock of a handler and of a
\* tick of a driver while every delivery succeeds: none of them is a frame of
\* handle_client_disconnect, leave_session or join_session.
ClockFrames == {"handling", "stopcmd", "stop_wait", "bcast", "drain", "loop", "sleep"}

\* Task t is inside a clock operation or a tick of session a.
InClockOperation(t, a) ==
    /\ stack[t] # <<>>
    /\ \A i \in 1..Len(stack[t]) : stack[t][i].k \in ClockFrames
    /\ \E i \in 1..Len(stack[t]) : stack[t][i].s = a

\* The step begins a start_timecode, stop_timecode or reset_timecode of a
\* client whose session_id is a.
BeginsClockCommand(a) ==
    /\ cmd'.c \in ClientIds
    /\ cmd'.type \in {"start_timecode", "stop_timecode", "reset_timecode"}
    /\ cl[cmd'.c].session_id = a

\* The step leaves the session map and, of every session other than a, the
\* timecode, running flag, subscriber set, driver handle and that driver's
\* state as they were.
OthersUntouched(a) ==
    /\ sessions' = sessions
    /\ \A b \in SessionIds \ {a} :
          /\ sess'[b] = sess[b]
          /\ sess[b].task # None =>
                /\ dres'[sess[b].task] = dres[sess[b].task]
                /\ cancelled'[D(sess[b].task)] = cancelled[D(sess[b].task)]
                /\ stack'[D(sess[b].task)] = stack[D(sess[b].task)]

\* C33: session isolation. Every step that begins a start_timecode,
\* stop_timecode or reset_timecode of a client of session a, and every step a
\* task takes inside such an operation or inside a tick of session a while no
\* delivery has failed, leaves the session map unchanged and leaves the
\* timecode, running flag, driver and subscriber set of every other session
\* unchanged.
C33_SessionIsolation ==
    [][ \A a \in SessionIds :
          /\ BeginsClockCommand(a) => OthersUntouched(a)
          /\ \A t \in Tasks :
                (InClockOperation(t, a) /\ stack'[t] # stack[t]) => OthersUntouched(a)
      ]_vars

\* Two sessions are registered and a tick has happened; a handler is inside
\* the stop_timecode of one, which has stopped, while the other is running with
\* its driver alive.
C33_Witness ==
    \E a \in sessions, b \in sessions, c \in ClientIds :
        /\ a # b
        /\ nticks >= 1
        /\ InClockOperation(H(c), a)
        /\ \E i \in 1..Len(stack[H(c)]) : stack[H(c)][i].k = "stopcmd"
        /\ ~sess[a].running
        /\ sess[b].running
        /\ sess[b].task # None
        /\ dres[sess[b].task] = "live"

====
